---- MODULE Spec2Model ----
(***************************************************************************)
(* Mergington High School activities API (src/src/app.py).                 *)
(*                                                                         *)
(* State: the module-level dictionary `activities`, the request being      *)
(* served and the response it got.  Spec runs the handlers one request at  *)
(* a time; SpecConc runs signup_for_activity on several worker threads,    *)
(* one statement of the handler per step.                                  *)
(***************************************************************************)
EXTENDS Integers, Sequences, FiniteSets, TLC

VARIABLES activities, request, response, pc, local, resp

vars == <<activities, request, response, pc, local, resp>>

(***************************************************************************)
(* Bounds of the model.                                                    *)
(***************************************************************************)
NumEmails == 3
NumThreads == 2

EmailPool ==
    <<"student@mergington.edu", "student1@mergington.edu",
      "student2@mergington.edu", "a@x.edu", "test@mergington.edu">>

Emails == {EmailPool[i] : i \in 1..NumEmails}
\* The emails the concurrent signups carry.
ConcEmails == {EmailPool[1], EmailPool[2]}
Threads == 1..NumThreads

\* Activity names that requests carry: two seeded ones and one that is no key.
RequestNames == {"Basketball", "Soccer", "NonExistent"}
ConcNames == {"Basketball", "NonExistent"}

(***************************************************************************)
(* The seed of the in-memory activity database.                            *)
(***************************************************************************)
Activity(description, schedule) ==
    [description |-> description, schedule |-> schedule, participants |-> <<>>]

Seed ==
    ("Basketball" :> Activity("Learn basketball skills and join our competitive team",
                              "Monday & Wednesday, 3:30 PM"))
    @@ ("Soccer" :> Activity("Play soccer and develop teamwork skills",
                             "Tuesday & Thursday, 3:30 PM"))
    @@ ("Tennis" :> Activity("Master tennis techniques and compete in tournaments",
                             "Monday & Friday, 4:00 PM"))
    @@ ("Volleyball" :> Activity("Join our volleyball team and improve your athletic abilities",
                                 "Wednesday & Saturday, 3:00 PM"))
    @@ ("Painting" :> Activity("Explore painting techniques and create beautiful artworks",
                               "Tuesday & Thursday, 4:00 PM"))
    @@ ("Theater" :> Activity("Perform in school plays and develop acting skills",
                              "Monday, Wednesday & Friday, 4:30 PM"))
    @@ ("Photography" :> Activity("Learn photography and capture the world through your lens",
                                  "Saturday, 2:00 PM"))
    @@ ("Debate Club" :> Activity("Develop public speaking and argumentation skills",
                                  "Tuesday & Thursday, 3:45 PM"))
    @@ ("Science Club" :> Activity("Conduct experiments and explore scientific concepts",
                                   "Wednesday, 4:00 PM"))
    @@ ("Chess Club" :> Activity("Master chess strategy and compete with other players",
                                 "Saturday, 1:00 PM"))

SeedNames == DOMAIN Seed

(***************************************************************************)
(* Requests and responses.                                                 *)
(***************************************************************************)
NoData == [n \in {} |-> Activity("", "")]

NoRequest == [method |-> "", path |-> <<>>, email |-> ""]
NoResponse == [status |-> 0, kind |-> "", text |-> <<>>, data |-> NoData]

RootRequest == [method |-> "GET", path |-> <<>>, email |-> ""]
ListRequest == [method |-> "GET", path |-> <<"activities">>, email |-> ""]
SignupRequest(activity_name, email) ==
    [method |-> "POST", path |-> <<"activities", activity_name, "signup">>, email |-> email]
UnregisterRequest(activity_name, email) ==
    [method |-> "POST", path |-> <<"activities", activity_name, "unregister">>, email |-> email]

\* raise HTTPException(status_code=..., detail=...)
HTTPException(status_code, detail) ==
    [status |-> status_code, kind |-> "detail", text |-> <<detail>>, data |-> NoData]

\* The route table built by the @app.get / @app.post decorators.
Route(req) ==
    IF req.method = "GET" /\ req.path = <<>> THEN "root"
    ELSE IF req.method = "GET" /\ req.path = <<"activities">> THEN "get_activities"
    ELSE IF /\ req.method = "POST"
            /\ Len(req.path) = 3
            /\ req.path[1] = "activities"
            /\ req.path[3] = "signup" THEN "signup_for_activity"
    ELSE "none"

\* What the application answers when no route matches the path.
RouteNotFound == HTTPException(404, "Not Found")

(***************************************************************************)
(* The pieces of signup_for_activity.                                      *)
(***************************************************************************)
\* email in participants
In(email, participants) == \E i \in 1..Len(participants) : participants[i] = email

Count(email, participants) ==
    Cardinality({i \in 1..Len(participants) : participants[i] = email})

\* activity_name not in activities  (negated)
ActivityExists(acts, activity_name) == activity_name \in DOMAIN acts

WrongNotFound == HTTPException(400, "Student already signed up for this activity")
\* raise HTTPException(status_code=404, detail="Activity not found")
ActivityNotFound == HTTPException(404, "Activity not found")

IdempotentSuccess ==
    [status |-> 200, kind |-> "message", text |-> <<"Already signed up">>, data |-> NoData]
\* raise HTTPException(status_code=400, detail="Student already signed up for this activity")
AlreadySignedUpResponse == HTTPException(400, "Student already signed up for this activity")

NeverSignedUp(acts, activity_name, email) == FALSE
\* email in activity["participants"]
AlreadySignedUp(acts, activity_name, email) == In(email, acts[activity_name].participants)

PrependStudent(participants, email) == <<email>> \o participants
\* participants.append(email)
AddStudent(participants, email) == Append(participants, email)

SharedListEffect(acts, activity_name, email) ==
    [n \in DOMAIN acts |-> [acts[n] EXCEPT !.participants = AddStudent(@, email)]]
\* activity = activities[activity_name]; activity["participants"].append(email)
SignupEffect(acts, activity_name, email) ==
    [acts EXCEPT ![activity_name].participants = AddStudent(@, email)]

SignedUpMessage(activity_name, email) ==
    [status |-> 200, kind |-> "message",
     text |-> <<"Signed up ", email, " for ", activity_name>>, data |-> NoData]

(***************************************************************************)
(* Init: the state after the module is imported.                           *)
(***************************************************************************)
Init ==
    /\ activities = Seed
    /\ request = NoRequest
    /\ response = NoResponse
    /\ pc = [t \in Threads |-> "idle"]
    /\ local = [t \in Threads |-> [activity_name |-> "", email |-> ""]]
    /\ resp = [t \in Threads |-> NoResponse]

(***************************************************************************)
(* The handlers, one request at a time.                                    *)
(***************************************************************************)
\* GET /
root ==
    /\ Route(RootRequest) = "root"
    /\ request' = RootRequest
    /\ response' = [status |-> 307, kind |-> "location",
                    text |-> <<"/static/index.html">>, data |-> NoData]
    /\ UNCHANGED <<activities, pc, local, resp>>

\* GET /activities
get_activities ==
    /\ Route(ListRequest) = "get_activities"
    /\ request' = ListRequest
    /\ response' = [status |-> 200, kind |-> "activities", text |-> <<>>, data |-> activities]
    /\ UNCHANGED <<activities, pc, local, resp>>

SignupAutoCreate(activity_name, email) ==
    /\ Route(SignupRequest(activity_name, email)) = "signup_for_activity"
    /\ request' = SignupRequest(activity_name, email)
    /\ LET acts == IF ActivityExists(activities, activity_name) THEN activities
                   ELSE activities @@ (activity_name :> Activity("", ""))
       IN IF AlreadySignedUp(acts, activity_name, email)
          THEN /\ response' = AlreadySignedUpResponse
               /\ activities' = acts
          ELSE /\ activities' = SignupEffect(acts, activity_name, email)
               /\ response' = SignedUpMessage(activity_name, email)
    /\ UNCHANGED <<pc, local, resp>>

\* POST /activities/{activity_name}/signup?email={email}
signup_for_activity(activity_name, email) ==
    /\ Route(SignupRequest(activity_name, email)) = "signup_for_activity"
    /\ request' = SignupRequest(activity_name, email)
    /\ IF ~ActivityExists(activities, activity_name)
       THEN /\ response' = ActivityNotFound
            /\ UNCHANGED activities
       ELSE IF AlreadySignedUp(activities, activity_name, email)
       THEN /\ response' = AlreadySignedUpResponse
            /\ UNCHANGED activities
       ELSE /\ activities' = SignupEffect(activities, activity_name, email)
            /\ response' = SignedUpMessage(activity_name, email)
    /\ UNCHANGED <<pc, local, resp>>

\* POST /activities/{activity_name}/unregister?email={email}: no handler is
\* registered for this path, so the application answers that the route is not found.
unrouted(req) ==
    /\ Route(req) = "none"
    /\ request' = req
    /\ response' = RouteNotFound
    /\ UNCHANGED <<activities, pc, local, resp>>

Next ==
    \/ root
    \/ get_activities
    \/ \E n \in RequestNames, e \in Emails : signup_for_activity(n, e)
    \/ \E n \in RequestNames, e \in Emails : unrouted(UnregisterRequest(n, e))

Spec == Init /\ [][Next]_vars

(***************************************************************************)
(* signup_for_activity on worker threads: the handler is a plain `def`, so *)
(* each request runs on a thread of the pool, and another thread may run   *)
(* between any two statements of it.                                       *)
(***************************************************************************)
\* A worker picks up POST /activities/{activity_name}/signup?email={email}.
Receive(t, activity_name, email) ==
    /\ pc[t] = "idle"
    /\ Route(SignupRequest(activity_name, email)) = "signup_for_activity"
    /\ local' = [local EXCEPT ![t] = [activity_name |-> activity_name, email |-> email]]
    /\ resp' = [resp EXCEPT ![t] = NoResponse]
    /\ pc' = [pc EXCEPT ![t] = "validate_activity"]
    /\ UNCHANGED <<activities, request, response>>

\* if activity_name not in activities: raise HTTPException(404)
ValidateActivity(t) ==
    /\ pc[t] = "validate_activity"
    /\ IF ~ActivityExists(activities, local[t].activity_name)
       THEN /\ resp' = [resp EXCEPT ![t] = ActivityNotFound]
            /\ pc' = [pc EXCEPT ![t] = "idle"]
       ELSE /\ pc' = [pc EXCEPT ![t] = "validate_student"]
            /\ UNCHANGED resp
    /\ UNCHANGED <<activities, request, response, local>>

\* if email in activity["participants"]: raise HTTPException(400)
ValidateStudent(t) ==
    /\ pc[t] = "validate_student"
    /\ IF AlreadySignedUp(activities, local[t].activity_name, local[t].email)
       THEN /\ resp' = [resp EXCEPT ![t] = AlreadySignedUpResponse]
            /\ pc' = [pc EXCEPT ![t] = "idle"]
       ELSE /\ pc' = [pc EXCEPT ![t] = "add_student"]
            /\ UNCHANGED resp
    /\ UNCHANGED <<activities, request, response, local>>

\* activity["participants"].append(email); return {"message": ...}
AddStudentStep(t) ==
    /\ pc[t] = "add_student"
    /\ activities' = SignupEffect(activities, local[t].activity_name, local[t].email)
    /\ resp' = [resp EXCEPT ![t] = SignedUpMessage(local[t].activity_name, local[t].email)]
    /\ pc' = [pc EXCEPT ![t] = "idle"]
    /\ UNCHANGED <<request, response, local>>

NextConc ==
    \E t \in Threads :
        \/ \E n \in ConcNames, e \in ConcEmails : Receive(t, n, e)
        \/ ValidateActivity(t)
        \/ ValidateStudent(t)
        \/ AddStudentStep(t)

SpecConc == Init /\ [][NextConc]_vars

(***************************************************************************)
(* Properties.                                                             *)
(***************************************************************************)
Participants(n) == activities[n].participants

IsSignup(req) == Route(req) = "signup_for_activity"
IsUnregister(req) ==
    /\ req.method = "POST"
    /\ Len(req.path) = 3
    /\ req.path[1] = "activities"
    /\ req.path[3] = "unregister"

\* The list with the first occurrence of email taken out (list.remove).
RECURSIVE RemoveFirst(_, _)
RemoveFirst(participants, email) ==
    IF participants = <<>> THEN <<>>
    ELSE IF Head(participants) = email THEN Tail(participants)
    ELSE <<Head(participants)>> \o RemoveFirst(Tail(participants), email)

NoDuplicates ==
    \A n \in DOMAIN activities : \A e \in Emails : Count(e, Participants(n)) <= 1

\* C1: a signup of an email that is not yet a participant of a seeded
\* activity answers 200 with the message naming the email and the activity,
\* and the activity's new participant list is the old one with the email
\* appended at the end (so the email is in it exactly once).
C1_SignupAppends ==
    [][\A n \in SeedNames, e \in Emails :
         (request' = SignupRequest(n, e) /\ ~In(e, Participants(n)))
         => /\ response'.status = 200
            /\ response'.kind = "message"
            /\ response'.text = <<"Signed up ", e, " for ", n>>
            /\ activities'[n].participants = Participants(n) \o <<e>>
            /\ SubSeq(activities'[n].participants, 1, Len(Participants(n))) = Participants(n)
            /\ Count(e, activities'[n].participants) = 1]_vars

\* A second student was just signed up behind an earlier one.
C1_Witness ==
    \E n \in SeedNames, e \in Emails :
        /\ request = SignupRequest(n, e)
        /\ response.status = 200
        /\ Len(Participants(n)) >= 2
        /\ Participants(n)[Len(Participants(n))] = e
        /\ Participants(n)[1] # e

\* C2: a signup of an email that already is a participant of the activity
\* answers 400 "Student already signed up for this activity" and changes
\* nothing in the registry; the same signup twice in a row answers 200, then 400.
C2_DuplicateSignupConflict ==
    [][\A n \in SeedNames, e \in Emails :
         /\ (request' = SignupRequest(n, e) /\ In(e, Participants(n)))
            => /\ response'.status = 400
               /\ response'.kind = "detail"
               /\ response'.text = <<"Student already signed up for this activity">>
               /\ activities' = activities
         /\ (/\ request = SignupRequest(n, e)
             /\ response.status = 200
             /\ request' = request)
            => /\ response'.status = 400
               /\ activities' = activities]_vars

\* The same signup was sent again right after it had succeeded.
C2_Witness ==
    \E n \in SeedNames, e \in Emails :
        /\ request = SignupRequest(n, e)
        /\ response = AlreadySignedUpResponse
        /\ Count(e, Participants(n)) = 1

\* C3: a signup for a name that is no key of the registry answers 404
\* "Activity not found", never the 400 conflict, whatever the registry holds;
\* the registry is unchanged and gets no entry for the name.
C3_UnknownActivityNotFound ==
    [][\A n \in RequestNames \ DOMAIN activities, e \in Emails :
         request' = SignupRequest(n, e)
         => /\ response'.status = 404
            /\ response'.kind = "detail"
            /\ response'.text = <<"Activity not found">>
            /\ activities' = activities
            /\ n \notin DOMAIN activities']_vars

\* An unknown activity was asked for by a student who is registered elsewhere.
C3_Witness ==
    \E n \in RequestNames \ SeedNames, e \in Emails :
        /\ request = SignupRequest(n, e)
        /\ response.status = 404
        /\ \E b \in SeedNames : In(e, Participants(b))

\* C4: unregistering a current participant of a seeded activity answers 200
\* with a message starting "Unregistered" and naming the email, and removes
\* exactly one occurrence of the email, leaving the others in order.
C4_UnregisterRemoves ==
    [][\A n \in SeedNames, e \in Emails :
         (request' = UnregisterRequest(n, e) /\ In(e, Participants(n)))
         => /\ response'.status = 200
            /\ response'.kind = "message"
            /\ Len(response'.text) >= 2
            /\ response'.text[1] = "Unregistered "
            /\ response'.text[2] = e
            /\ activities'[n].participants = RemoveFirst(Participants(n), e)
            /\ ~In(e, activities'[n].participants)]_vars

\* C5: unregister fails in precondition order and changes nothing: 404
\* "Activity not found" when the name is no key, else 400 (a detail saying
\* the student is not signed up) when the email is not a participant.
C5_UnregisterErrors ==
    [][\A n \in RequestNames, e \in Emails :
         request' = UnregisterRequest(n, e)
         => /\ n \notin DOMAIN activities
               => /\ response'.status = 404
                  /\ response'.text = <<"Activity not found">>
                  /\ activities' = activities
            /\ (n \in DOMAIN activities /\ ~In(e, Participants(n)))
               => /\ response'.status = 400
                  /\ response'.kind = "detail"
                  /\ activities' = activities]_vars

\* C6: right after a successful signup(A,E), unregister(A,E) succeeds and
\* takes E out again, giving back the list from before the signup; a signup
\* sent right after a successful unregister succeeds and leaves E registered.
C6_RoundTrip ==
    [][\A n \in SeedNames, e \in Emails :
         /\ (/\ request = SignupRequest(n, e)
             /\ response.status = 200
             /\ request' = UnregisterRequest(n, e))
            => /\ response'.status = 200
               /\ ~In(e, activities'[n].participants)
               /\ activities'[n].participants
                    = SubSeq(Participants(n), 1, Len(Participants(n)) - 1)
         /\ (/\ request = UnregisterRequest(n, e)
             /\ response.status = 200
             /\ request' = SignupRequest(n, e))
            => /\ response'.status = 200
               /\ Count(e, activities'[n].participants) = 1]_vars

\* C7: with requests served one at a time, no email is ever twice in the
\* participant list of an activity.
C7_NoDuplicates == NoDuplicates

\* A conflict was answered while several students are registered.
C7_Witness ==
    \E n \in SeedNames :
        /\ Len(Participants(n)) >= 2
        /\ response = AlreadySignedUpResponse

RegistryShape ==
    /\ DOMAIN activities = SeedNames
    /\ Cardinality(DOMAIN activities) = 10
    /\ \A n \in SeedNames :
         /\ activities[n].description = Seed[n].description
         /\ activities[n].schedule = Seed[n].schedule

ListStep ==
    request' = ListRequest
    => /\ activities' = activities
       /\ response'.status = 200
       /\ response'.data = activities
       /\ DOMAIN response'.data = SeedNames
       /\ \A n \in SeedNames :
            /\ response'.data[n].description = Seed[n].description
            /\ response'.data[n].schedule = Seed[n].schedule
            /\ response'.data[n].participants \in Seq(Emails)

\* C8: the registry always has exactly the ten seeded names as keys, each
\* with its seeded description and schedule; GET /activities changes nothing
\* and returns every one of them with description, schedule and participants.
C8_RegistryFixed == []RegistryShape /\ [][ListStep]_vars

\* The listing was returned while some activity has participants.
C8_Witness ==
    /\ request = ListRequest
    /\ response.data = activities
    /\ \E n \in SeedNames : Len(Participants(n)) >= 2

SucceededFor(t, n, e) ==
    /\ pc[t] = "idle"
    /\ local[t] = [activity_name |-> n, email |-> e]
    /\ resp[t].status = 200

\* C9 as stated: with signups running on several threads, no email is ever
\* twice in an activity's list and no two threads both get a success for the
\* same activity and email.
C9_ConcurrentNoDuplicates ==
    /\ \A n \in DOMAIN activities : \A e \in ConcEmails : Count(e, Participants(n)) <= 1
    /\ \A n \in SeedNames, e \in ConcEmails :
         \A t1, t2 \in Threads :
             (SucceededFor(t1, n, e) /\ SucceededFor(t2, n, e)) => t1 = t2

PendingAppends(n, e) ==
    {t \in Threads : pc[t] = "add_student"
                     /\ local[t] = [activity_name |-> n, email |-> e]}

\* C9 as amended: with signups running on several threads an email can be
\* appended once by every thread that passed the membership check before the
\* first append, and no more: its copies in an activity's list, plus the
\* appends still pending for it, never exceed the number of threads; and a
\* thread that holds a 400 conflict for it found it in the list.
C9_CopiesBoundedByThreads ==
    \A n \in SeedNames, e \in ConcEmails :
        /\ Count(e, Participants(n)) + Cardinality(PendingAppends(n, e)) <= NumThreads
        /\ \A t \in Threads :
             (/\ pc[t] = "idle"
              /\ local[t] = [activity_name |-> n, email |-> e]
              /\ resp[t].status = 400) => In(e, Participants(n))

\* Two threads both signed the same student up for the same activity.
C9_Witness ==
    \E n \in SeedNames, e \in ConcEmails :
        /\ Count(e, Participants(n)) >= 2
        /\ \E t1, t2 \in Threads :
             t1 # t2 /\ SucceededFor(t1, n, e) /\ SucceededFor(t2, n, e)

\* C10: a successful signup(A,E) leaves the participant list (the whole
\* record) of every other activity as it was; a signup(B,E) for another
\* activity B where E is not registered succeeds although E is in A.
C10_SignupFrame ==
    [][\A n \in SeedNames, e \in Emails :
         (request' = SignupRequest(n, e) /\ response'.status = 200)
         => /\ \A b \in DOMAIN activities \ {n} :
                 b \in DOMAIN activities' /\ activities'[b] = activities[b]
            /\ \A b \in SeedNames \ {n} :
                 In(e, activities'[b].participants) <=> In(e, Participants(b))]_vars

\* A student registered in one activity was then signed up for another one.
C10_Witness ==
    \E n, b \in SeedNames, e \in Emails :
        /\ n # b
        /\ request = SignupRequest(b, e)
        /\ response.status = 200
        /\ In(e, Participants(n))
        /\ In(e, Participants(b))
        /\ Len(Participants(n)) >= 2

====
